---- MODULE Spec2Model ----
(***************************************************************************)
(* Retail chat assistant: the two programs of the repository,              *)
(*   claudandlanggraph.py  (variant "graph":  LangGraph one-node graph)    *)
(*   claudeonly.py         (variant "direct": plain method call)           *)
(* modelled as one state machine.  A behaviour is one run of one variant,  *)
(* driven either by run_interactive_chat (caller "shell") or by a program  *)
(* that constructs RetailChatAgent(api_key) and calls chat (caller "api"). *)
(***************************************************************************)
EXTENDS Integers, Sequences, FiniteSets, TLC

VARIABLES
    variant,      \* which program runs: "graph" | "direct"
    caller,       \* "shell" (run_interactive_chat) | "api" (constructor + chat)
    arg_key,      \* api_key argument of RetailChatAgent.__init__
    env_key,      \* os.getenv('ANTHROPIC_API_KEY')
    pc,           \* position of the program
    client,       \* TRUE once Anthropic(api_key=...) was created
    product_db,   \* the PRODUCT_DB dictionary
    history,      \* graph: state["messages"]; direct: self.history
    state_none,   \* graph: the shell's `state is None`
    completed,    \* graph: state["completed"]
    user_input,   \* shell: the stripped line input() returned last
    message,      \* the message argument of the running chat call
    prompt,       \* the prompt of the last completion call
    reply,        \* what the last chat call handed back to its caller
    outcome,      \* how the completion call of the current turn ended
    response,     \* the text the completion call of the current turn returned
    calls,        \* completion calls made since startup
    turn_calls,   \* completion calls made in the current turn
    turns,        \* chat calls that have returned
    pre_history,  \* history when the current chat call was entered
    stdout,       \* the last thing printed
    exit_code     \* process exit status once pc = "exited"

vars == <<variant, caller, arg_key, env_key, pc, client, product_db, history,
          state_none, completed, user_input, message, prompt, reply, outcome,
          response, calls, turn_calls, turns, pre_history, stdout, exit_code>>

----------------------------------------------------------------------------
(* Bounds *)

MaxTurns == 3          \* chat calls per run
MaxPasses == 2         \* runs of the process node within one chat call
MaxPairs == 6          \* turns already in the history of a running session

----------------------------------------------------------------------------
(* Program constants *)

APOLOGY == "I apologize, but I encountered an error. Please try again."

\* variation: a window of six messages
WINDOW_six == 5 + 1

WINDOW == 5

\* prices in cents
PRODUCT_DB ==
    [k \in {"laptop", "headphones", "smartphone", "smartwatch", "tablet", "camera"} |->
       CASE k = "laptop"     -> [name |-> "ProBook X1", price |-> 99999,
                                 specs |-> "13-inch, 16GB RAM, 512GB SSD",
                                 availability |-> "In Stock", category |-> "Electronics"]
         [] k = "headphones" -> [name |-> "SoundMax Pro", price |-> 14999,
                                 specs |-> "Wireless, Noise-cancelling",
                                 availability |-> "Limited Stock", category |-> "Electronics"]
         [] k = "smartphone" -> [name |-> "GalaxyTech Pro", price |-> 89999,
                                 specs |-> "6.7-inch OLED, 256GB Storage, 5G",
                                 availability |-> "In Stock", category |-> "Electronics"]
         [] k = "smartwatch" -> [name |-> "FitTrack Elite", price |-> 29999,
                                 specs |-> "Always-on Display, Heart Rate, GPS",
                                 availability |-> "In Stock", category |-> "Electronics"]
         [] k = "tablet"     -> [name |-> "SlateBook Air", price |-> 64999,
                                 specs |-> "10.9-inch, 128GB, WiFi+5G",
                                 availability |-> "Limited Stock", category |-> "Electronics"]
         [] k = "camera"     -> [name |-> "PhotoPro X100", price |-> 129999,
                                 specs |-> "24MP, 4K Video, Mirrorless",
                                 availability |-> "In Stock", category |-> "Electronics"]]

----------------------------------------------------------------------------
(* Inputs *)

Variants == {"graph", "direct"}

\* a credential value: None, the empty string, or a key
KeyValues == {"None", "", "sk-ant"}

\* lines as typed at the prompt, before strip()
RawLines == {"What laptops do you have?", " hi ", "quit", " QUIT"}

\* messages an api caller passes to chat
UserMessages == {"What laptops do you have?", "hi"}

\* texts the completion service returns
Replies == {"We have the ProBook X1 for $999.99.", "Hello!"}

\* exceptions (subclasses of Exception) of a completion call:
\* "api_error" is raised by client.messages.create, "malformed" by
\* response.content[0].text on a response without a content block
FailKinds == {"api_error", "malformed"}

NoPrompt == [products |-> << >>, history |-> << >>, customer |-> ""]

----------------------------------------------------------------------------
(* Pure functions *)

\* variation: the constructor tests `is None` instead of truthiness
Truthy_not_none(k) == k # "None"

\* Python truthiness of an Optional[str]
Truthy(k) == k # "None" /\ k # ""

\* api_key or os.getenv('ANTHROPIC_API_KEY')
KeyOr(a, e) == IF Truthy(a) THEN a ELSE e

\* str.strip() on the lines of RawLines
Strip(s) ==
    CASE s = " hi "  -> "hi"
      [] s = " QUIT" -> "QUIT"
      [] OTHER       -> s

\* variation: the quit test compares the line as typed
Lower_case_sensitive(s) == s

\* str.lower() on the stripped lines
Lower(s) ==
    CASE s = "QUIT" -> "quit"
      [] s = "What laptops do you have?" -> "what laptops do you have?"
      [] OTHER -> s

Msg(r, c) == [role |-> r, content |-> c]

\* the list comprehension of the transcript: one labelled line per message
format_conversation_history(messages) ==
    [i \in 1..Len(messages) |->
        [label |-> IF messages[i].role = "user" THEN "Customer" ELSE "Assistant",
         content |-> messages[i].content]]

\* variation: the slice h[:n], the first n messages
Recent_first(h, n) ==
    SubSeq(h, 1, IF Len(h) < n THEN Len(h) ELSE n)

\* Python slice h[-n:] for n > 0
Recent(h, n) ==
    LET start == IF Len(h) - n < 0 THEN 0 ELSE Len(h) - n
    IN  SubSeq(h, start + 1, Len(h))

\* variation: the whole list, the current message included
AllButLast_all(h) == h

\* Python slice h[:-1]
AllButLast(h) ==
    LET stop == IF Len(h) - 1 < 0 THEN 0 ELSE Len(h) - 1
    IN  SubSeq(h, 1, stop)

\* variation: only the products the message names are put in the prompt
create_prompt_relevant(db, hist, user_message) ==
    [products |-> [k \in (IF user_message = "What laptops do you have?"
                            THEN {"laptop"} ELSE {}) |-> db[k]],
     history  |-> format_conversation_history(Recent(hist, WINDOW)),
     customer |-> user_message]

\* claudeonly.py: the prompt of create_prompt
create_prompt(db, hist, user_message) ==
    [products |-> db,
     history  |-> format_conversation_history(Recent(hist, WINDOW)),
     customer |-> user_message]

\* claudandlanggraph.py: the prompt built at the head of process_step
process_prompt(db, messages) ==
    [products |-> db,
     history  |-> format_conversation_history(AllButLast(messages)),
     customer |-> messages[Len(messages)].content]

\* claudandlanggraph.py: should_continue
should_continue(done) == IF done THEN "end" ELSE "process"

----------------------------------------------------------------------------
(* The state updates of the two chat implementations.  A session state is  *)
(* the pair [messages, completed].                                          *)

St(msgs, done) == [messages |-> msgs, completed |-> done]

\* variation: chat does not reset the flag of a reused state
chat_enter_no_reset(none, st, m) ==
    St(Append(IF none THEN << >> ELSE st.messages, Msg("user", m)),
       IF none THEN FALSE ELSE st.completed)

\* variation: chat starts a new message list on every call
chat_enter_fresh(none, st, m) ==
    St(<< Msg("user", m) >>, FALSE)

\* claudandlanggraph.py chat: fresh state or reset flag, then append the user message
chat_enter(none, st, m) ==
    St(Append(IF none THEN << >> ELSE st.messages, Msg("user", m)), FALSE)

\* claudandlanggraph.py process_step, try branch after the call returned
process_step_ok(st, text) ==
    St(Append(st.messages, Msg("assistant", text)), TRUE)

\* variation: the except branch puts the error text in the reply
process_step_except_detail(st) ==
    St(Append(st.messages, Msg("assistant", "Error processing message")), TRUE)

\* variation: the except branch leaves the flag as it is
process_step_except_no_flag(st) ==
    St(Append(st.messages, Msg("assistant", APOLOGY)), st.completed)

\* claudandlanggraph.py process_step, except branch
process_step_except(st) ==
    St(Append(st.messages, Msg("assistant", APOLOGY)), TRUE)

\* variation: only the assistant message is recorded
direct_chat_ok_no_user(hist, m, text) ==
    [history |-> Append(hist, Msg("assistant", text)), result |-> text]

\* claudeonly.py chat, try branch after the call returned: history and return value
direct_chat_ok(hist, m, text) ==
    [history |-> hist \o << Msg("user", m), Msg("assistant", text) >>,
     result  |-> text]

\* variation: the except branch records the user message and the apology
direct_chat_except_records(hist, m) ==
    [history |-> hist \o << Msg("user", m), Msg("assistant", APOLOGY) >>,
     result  |-> APOLOGY]

\* claudeonly.py chat, except branch: history and return value
direct_chat_except(hist, m) ==
    [history |-> hist, result |-> APOLOGY]

----------------------------------------------------------------------------
(* Initial state: the process has started, nothing is constructed yet.     *)

Init ==
    /\ variant \in Variants
    /\ caller \in {"shell", "api"}
    /\ arg_key \in (IF caller = "shell" THEN {"None"} ELSE KeyValues)
    /\ env_key \in KeyValues
    /\ pc = "start"
    /\ client = FALSE
    /\ product_db = PRODUCT_DB
    /\ history = << >>
    /\ state_none = TRUE
    /\ completed = FALSE
    /\ user_input = ""
    /\ message = ""
    /\ prompt = NoPrompt
    /\ reply = ""
    /\ outcome = "none"
    /\ response = ""
    /\ calls = 0
    /\ turn_calls = 0
    /\ turns = 0
    /\ pre_history = << >>
    /\ stdout = << >>
    /\ exit_code = 0

session_vars == <<history, state_none, completed, message, prompt, reply,
                  outcome, response, calls, turn_calls, turns, pre_history>>
config_vars == <<variant, caller, arg_key, env_key, product_db>>

----------------------------------------------------------------------------
(* RetailChatAgent.__init__ and the head of run_interactive_chat *)

\* the credential is there: the client is created, the shell prints its banner
ConstructOk ==
    /\ pc = "start"
    /\ Truthy(KeyOr(arg_key, env_key))
    /\ client' = TRUE
    /\ pc' = "input"
    /\ stdout' = IF caller = "shell" THEN <<"banner", "">> ELSE stdout
    /\ UNCHANGED <<config_vars, user_input, session_vars, exit_code>>

\* exit status of the process after the outer handler of run_interactive_chat
\* has printed the setup error and the function has returned
setup_error_status == 0

\* no credential: ValueError before the client is created.  In the shell the
\* outer `except Exception` prints the message and run_interactive_chat
\* returns, which ends the script; an api caller gets the exception.
ConstructFails ==
    /\ pc = "start"
    /\ ~Truthy(KeyOr(arg_key, env_key))
    /\ IF caller = "shell"
         THEN /\ pc' = "exited"
              /\ stdout' = <<"setup_error", "ANTHROPIC_API_KEY not found">>
              /\ exit_code' = setup_error_status
         ELSE /\ pc' = "raised"
              /\ UNCHANGED <<stdout, exit_code>>
    /\ UNCHANGED <<config_vars, user_input, session_vars, client>>

----------------------------------------------------------------------------
(* chat *)

\* entry of chat(m).  graph: lines 153-171 up to chain.invoke; direct: the
\* prompt is built from the history as it is and the completion call starts.
ChatEnter(m) ==
    /\ message' = m
    /\ pre_history' = history
    /\ outcome' = "none"
    /\ response' = ""
    /\ IF variant = "graph"
         THEN LET st == chat_enter(state_none, St(history, completed), m)
              IN  /\ history' = st.messages
                  /\ completed' = st.completed
                  /\ pc' = "process"
                  /\ turn_calls' = 0
                  /\ UNCHANGED <<prompt, calls>>
         ELSE /\ prompt' = create_prompt(product_db, history, m)
              /\ calls' = calls + 1
              /\ turn_calls' = 1
              /\ pc' = "calling"
              /\ UNCHANGED <<history, completed>>
    /\ UNCHANGED <<config_vars, client, state_none, reply, turns, stdout, exit_code>>

\* an api caller calls chat on its session, at most `limit` times
ApiChatUpTo(limit) ==
    /\ caller = "api"
    /\ pc = "input"
    /\ turns < limit
    /\ \E m \in UserMessages : ChatEnter(m)
    /\ UNCHANGED user_input

ApiChat == ApiChatUpTo(MaxTurns)

\* graph: the process node runs: prompt from the state, completion call starts
ProcessStep ==
    /\ variant = "graph"
    /\ pc = "process"
    /\ turn_calls < MaxPasses
    /\ prompt' = process_prompt(product_db, history)
    /\ calls' = calls + 1
    /\ turn_calls' = turn_calls + 1
    /\ pc' = "calling"
    /\ UNCHANGED <<config_vars, user_input, client, history, state_none, completed, message,
                   reply, outcome, response, turns, pre_history, stdout, exit_code>>

\* the completion call returns a response with text
CompletionReturns ==
    /\ pc = "calling"
    /\ \E text \in Replies :
         /\ response' = text
         /\ IF variant = "graph"
             THEN LET st == process_step_ok(St(history, completed), text)
                  IN  /\ history' = st.messages
                      /\ completed' = st.completed
                      /\ pc' = "decide"
                      /\ UNCHANGED <<reply, turns>>
             ELSE LET r == direct_chat_ok(history, message, text)
                  IN  /\ history' = r.history
                      /\ reply' = r.result
                      /\ pc' = "returned"
                      /\ turns' = turns + 1
                      /\ UNCHANGED completed
    /\ outcome' = "ok"
    /\ UNCHANGED <<config_vars, user_input, client, state_none, message, prompt, calls,
                   turn_calls, pre_history, stdout, exit_code>>

\* the completion call, or reading the text of its response, raises an Exception
CompletionRaises ==
    /\ pc = "calling"
    /\ \E kind \in FailKinds : outcome' = kind
    /\ UNCHANGED response
    /\ IF variant = "graph"
         THEN LET st == process_step_except(St(history, completed))
              IN  /\ history' = st.messages
                  /\ completed' = st.completed
                  /\ pc' = "decide"
                  /\ UNCHANGED <<reply, turns>>
         ELSE LET r == direct_chat_except(history, message)
              IN  /\ history' = r.history
                  /\ reply' = r.result
                  /\ pc' = "returned"
                  /\ turns' = turns + 1
                  /\ UNCHANGED completed
    /\ UNCHANGED <<config_vars, user_input, client, state_none, message, prompt, calls,
                   turn_calls, pre_history, stdout, exit_code>>

\* graph: the conditional edge after the process node; on "end" chain.invoke
\* returns the state and chat hands it to its caller
Decide ==
    /\ variant = "graph"
    /\ pc = "decide"
    /\ IF should_continue(completed) = "end"
         THEN /\ pc' = "returned"
              /\ reply' = history[Len(history)].content
              /\ state_none' = FALSE
              /\ turns' = turns + 1
         ELSE /\ pc' = "process"
              /\ UNCHANGED <<reply, state_none, turns>>
    /\ UNCHANGED <<config_vars, user_input, client, history, completed, message, prompt,
                   outcome, response, calls, turn_calls, pre_history, stdout, exit_code>>

\* chat has returned: the shell prints the reply and loops; an api caller goes on
TurnReturned ==
    /\ pc = "returned"
    /\ pc' = "input"
    /\ stdout' = IF caller = "shell" THEN <<"Assistant", reply>> ELSE stdout
    /\ UNCHANGED <<config_vars, user_input, client, session_vars, exit_code>>

----------------------------------------------------------------------------
(* The loop of run_interactive_chat *)

\* a line that is not the quit command starts a turn
ShellChat ==
    /\ caller = "shell"
    /\ pc = "input"
    /\ turns < MaxTurns
    /\ \E raw \in RawLines :
         /\ user_input' = Strip(raw)
         /\ Lower(Strip(raw)) # "quit"
         /\ ChatEnter(Strip(raw))

\* the quit command: the farewell of line 191, break, the function returns
ShellQuit ==
    /\ caller = "shell"
    /\ pc = "input"
    /\ \E raw \in RawLines :
         /\ user_input' = Strip(raw)
         /\ Lower(Strip(raw)) = "quit"
    /\ pc' = "exited"
    /\ stdout' = <<"farewell", "quit">>
    /\ exit_code' = 0
    /\ UNCHANGED <<config_vars, client, session_vars>>

\* KeyboardInterrupt while input() waits or while the completion call blocks:
\* it is no Exception, so only the loop's handler catches it: the farewell of
\* line 198 (it starts with one more newline), sys.exit(0)
ShellInterrupt ==
    /\ caller = "shell"
    /\ pc \in {"input", "calling"}
    /\ pc' = "exited"
    /\ stdout' = <<"farewell", "interrupt">>
    /\ exit_code' = 0
    /\ UNCHANGED <<config_vars, user_input, client, session_vars>>

\* variation: no handler in the loop, the error reaches the outer handler
ShellLoopError_exits ==
    /\ caller = "shell"
    /\ pc = "input"
    /\ pc' = "exited"
    /\ stdout' = <<"loop_error", "">>
    /\ UNCHANGED <<config_vars, user_input, client, session_vars, exit_code>>

\* input() raises EOFError: caught by the loop's `except Exception`, the loop goes on
ShellLoopError ==
    /\ caller = "shell"
    /\ pc = "input"
    /\ pc' = "input"
    /\ stdout' = <<"loop_error", "">>
    /\ UNCHANGED <<config_vars, user_input, client, session_vars, exit_code>>

----------------------------------------------------------------------------

Next ==
    \/ ConstructOk
    \/ ConstructFails
    \/ ApiChat
    \/ ShellChat
    \/ ProcessStep
    \/ CompletionReturns
    \/ CompletionRaises
    \/ Decide
    \/ TurnReturned
    \/ ShellQuit
    \/ ShellInterrupt
    \/ ShellLoopError

Spec == Init /\ [][Next]_vars

----------------------------------------------------------------------------
(* A session that is already running: the state between two turns of an    *)
(* api caller after p successful turns, p in 0..MaxPairs, as the actions   *)
(* above leave it.  Used for the properties of the history window, which   *)
(* need histories longer than the window.                                   *)

RECURSIVE PairSeqs(_)
PairSeqs(p) ==
    IF p = 0 THEN { << >> }
    ELSE { h \o << Msg("user", m), Msg("assistant", r) >> :
             h \in PairSeqs(p - 1), m \in UserMessages, r \in Replies }

InitWindow ==
    /\ variant \in Variants
    /\ caller = "api"
    /\ arg_key = "sk-ant"
    /\ env_key = "None"
    /\ pc = "input"
    /\ client = TRUE
    /\ product_db = PRODUCT_DB
    /\ turns \in 0..MaxPairs
    /\ history \in PairSeqs(turns)
    /\ calls = turns
    /\ stdout = << >>
    /\ exit_code = 0
    /\ user_input = ""
    /\ IF turns = 0
         THEN /\ state_none = TRUE
              /\ completed = FALSE
              /\ message = ""
              /\ prompt = NoPrompt
              /\ reply = ""
              /\ outcome = "none"
              /\ response = ""
              /\ turn_calls = 0
              /\ pre_history = << >>
         ELSE /\ state_none = (variant = "direct")
              /\ completed = (variant = "graph")
              /\ message = history[Len(history) - 1].content
              /\ pre_history = SubSeq(history, 1, Len(history) - 2)
              /\ prompt = IF variant = "graph"
                            THEN process_prompt(product_db, SubSeq(history, 1, Len(history) - 1))
                            ELSE create_prompt(product_db, pre_history, message)
              /\ reply = history[Len(history)].content
              /\ outcome = "ok"
              /\ response = reply
              /\ turn_calls = 1

\* the running session is followed up to its first failed turn
WindowChat ==
    /\ outcome \in {"none", "ok"}
    /\ ApiChatUpTo(MaxPairs + 1)

NextWindow ==
    \/ WindowChat
    \/ ProcessStep
    \/ CompletionReturns
    \/ CompletionRaises
    \/ Decide
    \/ TurnReturned

SpecWindow == InitWindow /\ [][NextWindow]_vars

----------------------------------------------------------------------------
(* Properties *)

\* a chat call has returned and the next one has not started
AtRest == pc \in {"returned", "input"}

Failed == outcome \in FailKinds

\* the last n elements of h in their order, all of h when it has fewer
LastN(h, n) ==
    IF Len(h) < n THEN h ELSE [i \in 1..n |-> h[Len(h) - n + i]]

\* the transcript lines are the messages msgs, in order
SameLines(lines, msgs) ==
    /\ Len(lines) = Len(msgs)
    /\ \A i \in 1..Len(msgs) :
         /\ lines[i].content = msgs[i].content
         /\ (lines[i].label = "Customer") <=> (msgs[i].role = "user")

\* C1: after N chat calls have returned, whether their completion calls
\* returned text or raised, the history holds exactly 2N entries, entry 2k-1
\* of role user and entry 2k of role assistant for k in 1..N.
C1_TwoEntriesPerTurn ==
    AtRest =>
        /\ Len(history) = 2 * turns
        /\ \A k \in 1..turns :
             /\ history[2 * k - 1].role = "user"
             /\ history[2 * k].role = "assistant"

\* C2: a turn whose completion call raised an Exception is not left by an
\* exception: it goes on to return, its reply (returned, recorded in the graph
\* state, printed by the shell) is the fixed apology whatever the kind of
\* failure, and in the graph variant the completion flag is set.
C2_FailureBecomesApology ==
    Failed =>
        /\ pc \in {"decide", "returned", "input", "exited"}
        /\ pc = "decide" =>
             /\ completed
             /\ history[Len(history)] = Msg("assistant", APOLOGY)
        /\ pc = "returned" =>
             /\ reply = APOLOGY
             /\ variant = "graph" => completed
        /\ (pc = "input" /\ caller = "shell" /\ stdout[1] = "Assistant") =>
             stdout[2] = APOLOGY

C2_Witness ==
    /\ variant = "graph"
    /\ pc = "returned"
    /\ outcome = "malformed"
    /\ reply = APOLOGY
    /\ completed

\* C3: after a turn whose completion call failed, the history is the history
\* before the turn followed by the user message and an assistant message whose
\* content is the apology.
C3_FailedTurnRecorded ==
    (pc = "returned" /\ Failed) =>
        history = pre_history \o << Msg("user", message), Msg("assistant", APOLOGY) >>

\* C4: while the completion call of a turn is in flight, the last history
\* entry is the user message of that turn.
C4_UserMessageBeforeCall ==
    pc = "calling" =>
        /\ Len(history) > 0
        /\ history[Len(history)] = Msg("user", message)

\* C5: the completion service is invoked exactly once per turn, also when the
\* call fails, and the decision after the processing pass routes to the end.
C5_OnePassPerTurn ==
    /\ turn_calls <= 1
    /\ pc \in {"calling", "decide", "returned"} => turn_calls = 1
    /\ AtRest => calls = turns
    /\ pc = "decide" => should_continue(completed) = "end"

C5_Witness ==
    /\ variant = "graph"
    /\ pc = "returned"
    /\ Failed
    /\ turns = 2
    /\ calls = 2
    /\ turn_calls = 1

\* C6: in the graph variant the completion flag is false from the entry of a
\* turn, also of a turn that reuses the state of a completed one, until the
\* completion call has returned or failed, and true once it has and whenever
\* a turn has returned.
C6_FlagFalseWhileProcessing ==
    variant = "graph" =>
        /\ pc \in {"process", "calling"} => ~completed
        /\ pc \in {"decide", "returned"} => completed
        /\ (pc = "input" /\ turns > 0) => completed

C6_Witness ==
    /\ variant = "graph"
    /\ pc = "calling"
    /\ turns >= 1
    /\ ~state_none
    /\ ~completed

\* C7: when the completion call of a turn returned text, the reply of the turn
\* is that text, the last history entry is the assistant message with that
\* text, the history has grown by two entries, and after a first turn the
\* history has length 2.
C7_SuccessfulTurn ==
    (pc = "returned" /\ outcome = "ok") =>
        /\ response \in Replies
        /\ reply = response
        /\ Len(history) = Len(pre_history) + 2
        /\ history[Len(history)] = Msg("assistant", response)
        /\ history[Len(history) - 1] = Msg("user", message)
        /\ turns = 1 => Len(history) = 2

C7_Witness ==
    /\ variant = "direct"
    /\ pc = "returned"
    /\ turns = 1
    /\ message = "What laptops do you have?"
    /\ reply = "We have the ProBook X1 for $999.99."
    /\ Len(history) = 2

\* C8: the transcript in the prompt of the bounded (direct) variant is the
\* last 5 history messages in their order, or the whole history when it has
\* fewer; the slice does so on every prefix of the history; the prompt of the
\* unbounded (graph) variant holds every message before the current user message.
C8_HistoryWindow ==
    /\ (pc = "calling" /\ variant = "direct") =>
           SameLines(prompt.history, LastN(history, 5))
    /\ (pc = "calling" /\ variant = "graph") =>
           SameLines(prompt.history, [i \in 1..(Len(history) - 1) |-> history[i]])
    /\ \A k \in 0..Len(history) :
           Recent(SubSeq(history, 1, k), 5) = LastN(SubSeq(history, 1, k), 5)

C8_Witness ==
    /\ variant = "direct"
    /\ pc = "calling"
    /\ Len(history) = 12
    /\ Len(prompt.history) = 5
    /\ prompt.history[1].content = history[8].content
    /\ history[8].content # history[1].content

\* C9: a process whose construction failed for a missing credential ends with
\* a non-zero exit status.
C9_MissingCredentialExitsNonZero ==
    (pc = "exited" /\ ~client) => exit_code # 0

\* C10: when neither the constructor argument nor the environment holds a
\* credential, construction fails before anything else happens: no client is
\* created, no completion call is made and no turn is processed.
C10_NoCredentialNoClient ==
    (arg_key \in {"None", ""} /\ env_key \in {"None", ""}) =>
        /\ pc \in {"start", "raised", "exited"}
        /\ pc = "exited" => stdout = <<"setup_error", "ANTHROPIC_API_KEY not found">>
        /\ ~client
        /\ calls = 0
        /\ turns = 0
        /\ history = << >>

C10_Witness ==
    /\ caller = "api"
    /\ arg_key = ""
    /\ env_key = "None"
    /\ pc = "raised"
    /\ ~client

IsPrefix(a, b) == Len(a) <= Len(b) /\ SubSeq(b, 1, Len(a)) = a

\* C11: an error raised in an iteration of the interactive loop (EOFError of
\* input()) is caught in that iteration: the step that prints the loop's error
\* message leaves the shell waiting for input again, with the session state
\* and the history as they were, and does not end the process.
C11_LoopErrorKeepsSession ==
    [][ (stdout' = <<"loop_error", "">> /\ stdout # <<"loop_error", "">>) =>
          /\ pc = "input"
          /\ pc' = "input"
          /\ UNCHANGED <<history, state_none, completed, client, turns, calls,
                         exit_code>>
      ]_vars

C11_Witness ==
    /\ caller = "shell"
    /\ stdout = <<"loop_error", "">>
    /\ pc = "calling"
    /\ turns = 1
    /\ Len(pre_history) = 2

\* C12: the shell ends on a line that is "quit" in any letter case, without
\* processing a turn for it; a line that is not the quit command never ends
\* it and a quit line never starts a turn; after the quit command and after a
\* keyboard interrupt the process has ended with exit code 0.
C12_QuitEndsGracefully ==
    [][ (caller = "shell" /\ pc = "input") =>
          /\ (pc' = "exited" /\ stdout' = <<"farewell", "quit">>) =>
                 /\ user_input' \in {"quit", "QUIT"}
                 /\ UNCHANGED <<history, turns, calls, prompt>>
                 /\ exit_code' = 0
          /\ (pc' = "exited" /\ stdout' # <<"farewell", "quit">>) =>
                 /\ stdout' = <<"farewell", "interrupt">>
                 /\ UNCHANGED user_input
                 /\ exit_code' = 0
          /\ pc' \in {"process", "calling"} =>
                 /\ user_input' \notin {"quit", "QUIT"}
                 /\ message' = user_input'
      ]_vars

C12_Witness ==
    /\ pc = "exited"
    /\ user_input = "QUIT"
    /\ stdout = <<"farewell", "quit">>
    /\ turns = 1
    /\ calls = 1
    /\ exit_code = 0

\* C13: every step leaves the history it found as a prefix of the history it
\* leaves, and when a turn returns, successful or failed, the history before
\* the turn is a prefix of the history after it.
C13_HistoryAppendOnly ==
    [][ /\ IsPrefix(history, history')
        /\ pc' = "returned" => IsPrefix(pre_history', history')
      ]_vars

C13_Witness ==
    /\ variant = "graph"
    /\ pc = "returned"
    /\ Failed
    /\ Len(pre_history) = 2
    /\ Len(history) = 4
    /\ IsPrefix(pre_history, history)

\* C14: the catalog is the same in every state as at startup (the six product
\* keys, each product's attributes), and the prompt of every completion call
\* holds the full catalog whatever the user message.
C14_CatalogUnchanged ==
    /\ product_db = PRODUCT_DB
    /\ DOMAIN product_db =
         {"laptop", "headphones", "smartphone", "smartwatch", "tablet", "camera"}
    /\ product_db["laptop"].price = 99999
    /\ product_db["laptop"].availability = "In Stock"
    /\ calls > 0 => prompt.products = PRODUCT_DB

C14_Witness ==
    /\ pc = "returned"
    /\ Failed
    /\ turns = 2
    /\ message = "hi"
    /\ prompt.products = product_db
    /\ product_db = PRODUCT_DB

\* C15: in the prompt of a completion call the current user message is the
\* current-message part, and the previous-conversation part is a tail of the
\* history as it was before the turn: no line of it stands for the current
\* user message.
C15_CurrentMessageNotInWindow ==
    pc = "calling" =>
        /\ prompt.customer = message
        /\ Len(prompt.history) <= Len(pre_history)
        /\ \E k \in 0..Len(pre_history) :
             SameLines(prompt.history, SubSeq(pre_history, k + 1, Len(pre_history)))

C15_Witness ==
    /\ variant = "graph"
    /\ pc = "calling"
    /\ Len(history) = 3
    /\ Len(prompt.history) = 2
    /\ history[3] = Msg("user", message)
    /\ prompt.history[2].label = "Assistant"

\* C16: in the direct variant a turn whose completion call raised leaves the
\* history as it was before the turn: neither the user message nor the
\* apology is recorded, and the window of a later prompt holds recorded
\* messages only.
C16_DirectFailureLeavesHistory ==
    variant = "direct" =>
        /\ (pc = "returned" /\ Failed) =>
               /\ history = pre_history
               /\ reply = APOLOGY
        /\ \A i \in 1..Len(history) : history[i].content # APOLOGY
        /\ pc = "calling" =>
               \A i \in 1..Len(prompt.history) :
                   \E j \in 1..Len(history) :
                       /\ history[j].content = prompt.history[i].content
                       /\ prompt.history[i].content # APOLOGY

C16_Witness ==
    /\ variant = "direct"
    /\ pc = "calling"
    /\ turns = 2
    /\ Len(history) = 2
    /\ history[1].content = "What laptops do you have?"
    /\ Len(prompt.history) = 2

\* C17: in the direct variant the history length is even in every state and
\* its entries are user/assistant pairs; so when the history holds more than
\* 5 entries the 5-message window of the prompt begins with an assistant
\* message.
C17_WindowStartsWithAssistant ==
    variant = "direct" =>
        /\ Len(history) % 2 = 0
        /\ \A i \in 1..Len(history) :
             history[i].role = (IF i % 2 = 1 THEN "user" ELSE "assistant")
        /\ (pc = "calling" /\ Len(history) > 5) =>
               /\ Len(prompt.history) = 5
               /\ prompt.history[1].label = "Assistant"
               /\ prompt.history[1].content = history[Len(history) - 4].content

C17_Witness ==
    /\ variant = "direct"
    /\ pc = "calling"
    /\ Len(history) = 8
    /\ prompt.history[1].label = "Assistant"
    /\ prompt.history[2].label = "Customer"

====
